---- MODULE Spec2Model ----
(***************************************************************************)
(* jiwer: the transform pipeline of jiwer/transforms.py and the character  *)
(* error rate computation that consumes its output.                        *)
(*                                                                         *)
(* A Python value is a record [k, v]: k is the Python type, v the payload  *)
(* (the characters of a str, the elements of a list or tuple).  A call     *)
(* returns an outcome [exc, val]: exc is "none" or the exception raised.   *)
(***************************************************************************)
EXTENDS Integers, Sequences, FiniteSets, TLC

VARIABLES
    transforms,   \* Compose.transforms of the pipeline being called
    input,        \* the argument the pipeline was called with
    text,         \* Compose.__call__: the local `text`
    pos,          \* Compose.__call__: index of the next transform of the loop
    pcT,          \* "idle" | "call" | "returned" | "raised"
    excT,         \* the exception that left Compose.__call__, or "none"
    truth,        \* cer(): argument truth
    hypothesis,   \* cer(): argument hypothesis
    tt,           \* the normalized truth corpus (a sequence of token sequences)
    hh,           \* the normalized hypothesis corpus
    idx,          \* number of sentence pairs aligned so far
    H, S, D, I,   \* aggregate hits, substitutions, deletions, insertions
    rate,         \* the returned rate <<numerator, denominator>>, or <<>>
    err,          \* the error cer() failed with, or "none"
    pc            \* "idle" | "start" | "align" | "done" | "error"

tvars == <<transforms, input, text, pos, pcT, excT>>
cvars == <<truth, hypothesis, tt, hh, idx, H, S, D, I, rate, err, pc>>
vars == <<transforms, input, text, pos, pcT, excT,
          truth, hypothesis, tt, hh, idx, H, S, D, I, rate, err, pc>>

----------------------------------------------------------------------------
(* Bounds and alphabets *)

\* total number of characters of one transform input
MaxChars == 3
\* number of sentences of one list input of a transform
MaxSent == 2
\* total number of characters of the truth (hypothesis) given to cer()
CerMaxChars == 2
\* number of sentences of a list given to cer()
CerMaxSent == 2

Alphabet == {"a", "B", " ", "\t", "[", "]"}
CerAlphabet == {"a", "b", " "}

----------------------------------------------------------------------------
(* Python values and outcomes *)

Str(s) == [k |-> "str", v |-> s]
List(xs) == [k |-> "list", v |-> xs]
Tuple(xs) == [k |-> "tuple", v |-> xs]
NoneV == [k |-> "none", v |-> <<>>]
IntV == [k |-> "int", v |-> <<>>]

Ret(x) == [exc |-> "none", val |-> x]
Raise(e) == [exc |-> e, val |-> NoneV]

IsStr(x) == x.k = "str"
IsListOfStr(x) == x.k = "list" /\ \A i \in 1..Len(x.v) : x.v[i].k = "str"

----------------------------------------------------------------------------
(* str methods and the regular expressions, on sequences of characters *)

\* str.isspace of one character; also the class \s of re
IsSpace(c) == c \in {" ", "\t", "\n", "\r"}

\* unicodedata.category(c).startswith("P")
IsPunctuation(c) == c \in {"[", "]", ".", ",", "!", "?", "'"}

RECURSIVE LStrip(_)
LStrip(s) == IF s # <<>> /\ IsSpace(Head(s)) THEN LStrip(Tail(s)) ELSE s

RECURSIVE RStrip(_)
RStrip(s) ==
    IF s # <<>> /\ IsSpace(s[Len(s)]) THEN RStrip(SubSeq(s, 1, Len(s) - 1)) ELSE s

\* str.strip()
StrStrip(s) == RStrip(LStrip(s))

\* number of leading characters of s that are whitespace
RECURSIVE SpaceRun(_)
SpaceRun(s) == IF s # <<>> /\ IsSpace(Head(s)) THEN 1 + SpaceRun(Tail(s)) ELSE 0

\* re.sub(r"\s\s+", " ", s)
RECURSIVE SubMultipleSpaces(_)
SubMultipleSpaces(s) ==
    IF s = <<>> THEN <<>>
    ELSE LET n == SpaceRun(s)
         IN  IF n >= 2 THEN <<" ">> \o SubMultipleSpaces(SubSeq(s, n + 1, Len(s)))
             ELSE <<Head(s)>> \o SubMultipleSpaces(Tail(s))

\* s.replace(w, token) for every w of `chars`, each w one character
RECURSIVE ReplaceChars(_, _, _)
ReplaceChars(s, chars, token) ==
    IF s = <<>> THEN <<>>
    ELSE (IF Head(s) \in chars THEN token ELSE <<Head(s)>>)
         \o ReplaceChars(Tail(s), chars, token)

\* s.split(d), d one character
RECURSIVE Split(_, _)
Split(s, d) ==
    IF \A i \in 1..Len(s) : s[i] # d THEN <<s>>
    ELSE LET i == CHOOSE j \in 1..Len(s) :
                      s[j] = d /\ \A l \in 1..(j - 1) : s[l] # d
         IN  <<SubSeq(s, 1, i - 1)>> \o Split(SubSeq(s, i + 1, Len(s)), d)

\* d.join(parts), parts a sequence of character sequences
RECURSIVE Join(_, _)
Join(parts, d) ==
    IF parts = <<>> THEN <<>>
    ELSE IF Len(parts) = 1 THEN parts[1]
    ELSE parts[1] \o d \o Join(Tail(parts), d)

\* position of the first character of s in `closers`, 0 if there is none
RECURSIVE FirstIn(_, _)
FirstIn(s, closers) ==
    IF s = <<>> THEN 0
    ELSE IF Head(s) \in closers THEN 1
    ELSE LET r == FirstIn(Tail(s), closers) IN IF r = 0 THEN 0 ELSE r + 1

\* re.sub(r"[<\[][^>\]]*[>\]]", "", s)
RECURSIVE SubKaldi(_)
SubKaldi(s) ==
    IF s = <<>> THEN <<>>
    ELSE LET c == FirstIn(Tail(s), {">", "]"})
         IN  IF Head(s) \in {"<", "["} /\ c > 0
             THEN SubKaldi(SubSeq(s, c + 2, Len(s)))
             ELSE <<Head(s)>> \o SubKaldi(Tail(s))

LowerChar(c) == CASE c = "A" -> "a" [] c = "B" -> "b" [] OTHER -> c
UpperChar(c) == CASE c = "a" -> "A" [] c = "b" -> "B" [] OTHER -> c

----------------------------------------------------------------------------
(* The transforms.  process_string receives whatever the list holds: an   *)
(* element that is no str fails in the str method or the re call made on  *)
(* it (AttributeError, TypeError), as Python does.                        *)

\* mutant of Strip.process_string: return s
StripProcessStringNoop(x) == Ret(x)

\* mutant of Strip.process_string: drops one whitespace character at each end only
StripProcessStringOneChar(x) ==
    IF ~IsStr(x) THEN Raise("AttributeError")
    ELSE LET l == IF x.v # <<>> /\ IsSpace(Head(x.v)) THEN Tail(x.v) ELSE x.v
             r == IF l # <<>> /\ IsSpace(l[Len(l)]) THEN SubSeq(l, 1, Len(l) - 1) ELSE l
         IN  Ret(Str(r))

\* Strip.process_string: s.strip()
StripProcessString(x) ==
    IF IsStr(x) THEN Ret(Str(StrStrip(x.v))) ELSE Raise("AttributeError")

\* RemoveMultipleSpaces.process_string: re.sub(r"\s\s+", " ", s)
RemoveMultipleSpacesProcessString(x) ==
    IF IsStr(x) THEN Ret(Str(SubMultipleSpaces(x.v))) ELSE Raise("TypeError")

\* BaseRemoveTransform.process_string: s.replace(w, replace_token) for each w
BaseRemoveProcessString(x, tokens_to_remove, replace_token) ==
    IF IsStr(x) THEN Ret(Str(ReplaceChars(x.v, tokens_to_remove, replace_token)))
    ELSE Raise("AttributeError")

\* RemoveWhiteSpace.__init__: string.whitespace, "" or " "
RemoveWhiteSpaceProcessString(x, replace_by_space) ==
    BaseRemoveProcessString(x, {c \in Alphabet \cup {"\n", "\r"} : IsSpace(c)},
                            IF replace_by_space THEN <<" ">> ELSE <<>>)

\* RemovePunctuation.__init__: every character of a category P*, ""
RemovePunctuationProcessString(x) ==
    BaseRemoveProcessString(x, {c \in Alphabet : IsPunctuation(c)}, <<>>)

\* ToLowerCase.process_string: s.lower()
ToLowerCaseProcessString(x) ==
    IF IsStr(x) THEN Ret(Str([i \in 1..Len(x.v) |-> LowerChar(x.v[i])]))
    ELSE Raise("AttributeError")

\* ToUpperCase.process_string: s.upper()
ToUpperCaseProcessString(x) ==
    IF IsStr(x) THEN Ret(Str([i \in 1..Len(x.v) |-> UpperChar(x.v[i])]))
    ELSE Raise("AttributeError")

\* RemoveKaldiNonWords.process_string
RemoveKaldiNonWordsProcessString(x) ==
    IF IsStr(x) THEN Ret(Str(SubKaldi(x.v))) ELSE Raise("TypeError")

\* mutant of ReduceToListOfListOfWords.process_string: without `if len(w) >= 1`
WordsProcessStringUnfiltered(x) ==
    IF IsStr(x)
    THEN LET words == Split(x.v, " ")
         IN  Ret(List(<<List([i \in 1..Len(words) |-> Str(words[i])])>>))
    ELSE Raise("AttributeError")

\* ReduceToListOfListOfWords.process_string:
\* [[w for w in s.split(self.word_delimiter) if len(w) >= 1]]
WordsProcessString(x) ==
    IF IsStr(x)
    THEN LET words == SelectSeq(Split(x.v, " "), LAMBDA w : Len(w) >= 1)
         IN  Ret(List(<<List([i \in 1..Len(words) |-> Str(words[i])])>>))
    ELSE Raise("AttributeError")

\* mutant of ReduceToListOfListOfChars.process_string: [[w for w in s if w != " "]]
CharsProcessStringNoSpace(x) ==
    IF IsStr(x)
    THEN LET chars == SelectSeq(x.v, LAMBDA w : w # " ")
         IN  Ret(List(<<List([i \in 1..Len(chars) |-> Str(<<chars[i]>>)])>>))
    ELSE IF x.k \in {"list", "tuple"} THEN Ret(List(<<List(x.v)>>))
    ELSE Raise("TypeError")

\* ReduceToListOfListOfChars.process_string: [[w for w in s]]
CharsProcessString(x) ==
    IF IsStr(x)
    THEN Ret(List(<<List([i \in 1..Len(x.v) |-> Str(<<x.v[i]>>)])>>))
    ELSE IF x.k \in {"list", "tuple"} THEN Ret(List(<<List(x.v)>>))
    ELSE Raise("TypeError")

\* ReduceToSingleSentence.process_string: return s
SingleSentenceProcessString(x) == Ret(x)

\* RemoveEmptyStrings.process_string: s.strip()
RemoveEmptyStringsProcessString(x) ==
    IF IsStr(x) THEN Ret(Str(StrStrip(x.v))) ELSE Raise("AttributeError")

\* the process_string a transform object dispatches to
ProcessString(tr, x) ==
    CASE tr = "Strip" -> StripProcessString(x)
      [] tr = "RemoveMultipleSpaces" -> RemoveMultipleSpacesProcessString(x)
      [] tr = "RemoveWhiteSpace" -> RemoveWhiteSpaceProcessString(x, FALSE)
      [] tr = "RemoveWhiteSpaceBySpace" -> RemoveWhiteSpaceProcessString(x, TRUE)
      [] tr = "RemovePunctuation" -> RemovePunctuationProcessString(x)
      [] tr = "ToLowerCase" -> ToLowerCaseProcessString(x)
      [] tr = "ToUpperCase" -> ToUpperCaseProcessString(x)
      [] tr = "RemoveKaldiNonWords" -> RemoveKaldiNonWordsProcessString(x)
      [] tr = "ReduceToListOfListOfWords" -> WordsProcessString(x)
      [] tr = "ReduceToListOfListOfChars" -> CharsProcessString(x)
      [] tr = "ReduceToSingleSentence" -> SingleSentenceProcessString(x)
      [] tr = "RemoveEmptyStrings" -> RemoveEmptyStringsProcessString(x)

\* [self.process_string(s) for s in inp]: the first exception leaves the loop
RECURSIVE Comprehension(_, _)
Comprehension(tr, inp) ==
    IF inp = <<>> THEN Ret(List(<<>>))
    ELSE LET r == ProcessString(tr, Head(inp))
         IN  IF r.exc # "none" THEN r
             ELSE LET rest == Comprehension(tr, Tail(inp))
                  IN  IF rest.exc # "none" THEN rest
                      ELSE Ret(List(<<r.val>> \o rest.val.v))

\* mutant of AbstractTransform.process_list: return inp
AbstractProcessListUnprocessed(tr, inp) == Ret(List(inp))

\* mutant of AbstractTransform.process_list:
\* [t for t in (self.process_string(s) for s in inp) if t != ""]
AbstractProcessListDropEmpty(tr, inp) ==
    LET r == Comprehension(tr, inp)
    IN  IF r.exc # "none" THEN r
        ELSE Ret(List(SelectSeq(r.val.v, LAMBDA t : t.v # <<>>)))

\* AbstractTransform.process_list
AbstractProcessList(tr, inp) == Comprehension(tr, inp)

\* BaseRemoveTransform.process_list
BaseRemoveProcessList(tr, inp) == Comprehension(tr, inp)

\* RemoveMultipleSpaces.process_list
RemoveMultipleSpacesProcessList(tr, inp) == Comprehension(tr, inp)

\* the loop of ReduceToListOfListOf{Words,Chars}.process_list:
\* sentence_collection.append(self.process_string(sentence)[0])
RECURSIVE SentenceCollection(_, _)
SentenceCollection(tr, inp) ==
    IF inp = <<>> THEN Ret(List(<<>>))
    ELSE LET r == ProcessString(tr, Head(inp))
         IN  IF r.exc # "none" THEN r
             ELSE LET rest == SentenceCollection(tr, Tail(inp))
                  IN  IF rest.exc # "none" THEN rest
                      ELSE Ret(List(<<r.val.v[1]>> \o rest.val.v))

\* ReduceToListOfListOfWords.process_list
WordsProcessList(inp) ==
    LET sentence_collection == SentenceCollection("ReduceToListOfListOfWords", inp)
    IN  IF sentence_collection.exc # "none" THEN sentence_collection
        ELSE IF Len(sentence_collection.val.v) = 0 THEN Ret(List(<<List(<<>>)>>))
        ELSE sentence_collection

\* mutant of ReduceToListOfListOfChars.process_list: a sentence without tokens
\* is not appended
CharsProcessListDropEmpty(inp) ==
    LET sentence_collection == SentenceCollection("ReduceToListOfListOfChars", inp)
    IN  IF sentence_collection.exc # "none" THEN sentence_collection
        ELSE LET kept == SelectSeq(sentence_collection.val.v, LAMBDA l : l.v # <<>>)
             IN  IF Len(kept) = 0 THEN Ret(List(<<List(<<>>)>>)) ELSE Ret(List(kept))

\* mutant of ReduceToListOfListOfChars.process_list:
\* sentence_collection = [list_of_words] in place of the append
CharsProcessListLastOnly(inp) ==
    LET sentence_collection == SentenceCollection("ReduceToListOfListOfChars", inp)
    IN  IF sentence_collection.exc # "none" THEN sentence_collection
        ELSE IF Len(sentence_collection.val.v) = 0 THEN Ret(List(<<List(<<>>)>>))
        ELSE Ret(List(<<sentence_collection.val.v[Len(sentence_collection.val.v)]>>))

\* ReduceToListOfListOfChars.process_list
CharsProcessList(inp) ==
    LET sentence_collection == SentenceCollection("ReduceToListOfListOfChars", inp)
    IN  IF sentence_collection.exc # "none" THEN sentence_collection
        ELSE IF Len(sentence_collection.val.v) = 0 THEN Ret(List(<<List(<<>>)>>))
        ELSE sentence_collection

\* ReduceToSingleSentence.process_list: len(i) of an element without a length
\* is a TypeError, and so is str.join over an element that is no str
SingleSentenceProcessList(inp) ==
    IF \E i \in 1..Len(inp) : inp[i].k \in {"none", "int"} THEN Raise("TypeError")
    ELSE LET filtered_inp == SelectSeq(inp, LAMBDA i : Len(i.v) >= 1)
         IN  IF Len(filtered_inp) = 0 THEN Ret(List(<<>>))
             ELSE IF \E i \in 1..Len(filtered_inp) : ~IsStr(filtered_inp[i])
             THEN Raise("TypeError")
             ELSE Ret(List(<<Str(Join([i \in 1..Len(filtered_inp) |->
                                         filtered_inp[i].v], <<" ">>))>>))

\* RemoveEmptyStrings.process_list: [s for s in inp if self.process_string(s) != ""]
RemoveEmptyStringsProcessList(inp) ==
    IF \E i \in 1..Len(inp) : ~IsStr(inp[i]) THEN Raise("AttributeError")
    ELSE Ret(List(SelectSeq(inp, LAMBDA s : StrStrip(s.v) # <<>>)))

\* the process_list a transform object dispatches to
ProcessList(tr, inp) ==
    CASE tr \in {"RemoveWhiteSpace", "RemoveWhiteSpaceBySpace", "RemovePunctuation"}
           -> BaseRemoveProcessList(tr, inp)
      [] tr = "RemoveMultipleSpaces" -> RemoveMultipleSpacesProcessList(tr, inp)
      [] tr = "ReduceToListOfListOfWords" -> WordsProcessList(inp)
      [] tr = "ReduceToListOfListOfChars" -> CharsProcessList(inp)
      [] tr = "ReduceToSingleSentence" -> SingleSentenceProcessList(inp)
      [] tr = "RemoveEmptyStrings" -> RemoveEmptyStringsProcessList(inp)
      [] OTHER -> AbstractProcessList(tr, inp)

\* AbstractTransform.__call__
Call(tr, sentences) ==
    IF sentences.k = "str" THEN ProcessString(tr, sentences)
    ELSE IF sentences.k = "list" THEN ProcessList(tr, sentences.v)
    ELSE Raise("ValueError")

\* Compose.__call__, run to its end: for tr in self.transforms: text = tr(text)
RECURSIVE ComposeCall(_, _)
ComposeCall(trs, x) ==
    IF trs = <<>> THEN Ret(x)
    ELSE LET r == Call(Head(trs), x)
         IN  IF r.exc # "none" THEN r ELSE ComposeCall(Tail(trs), r.val)

----------------------------------------------------------------------------
(* Calls of a pipeline: Compose.__call__, one transform per step *)

\* all character sequences over `alphabet` of length at most n
StringsUpTo(alphabet, n) == UNION {[1..m -> alphabet] : m \in 0..n}

\* all sequences of exactly m character sequences with at most n characters in all
RECURSIVE SentencesOf(_, _, _)
SentencesOf(alphabet, m, n) ==
    IF m = 0 THEN {<<>>}
    ELSE UNION {{<<s>> \o rest : rest \in SentencesOf(alphabet, m - 1, n - Len(s))} :
                s \in StringsUpTo(alphabet, n)}

\* the str and list-of-str arguments within the bounds
StrInputs(alphabet, n) == {Str(s) : s \in StringsUpTo(alphabet, n)}
ListInputs(alphabet, maxSent, n) ==
    UNION {{List([i \in 1..m |-> Str(ss[i])]) : ss \in SentencesOf(alphabet, m, n)} :
           m \in 0..maxSent}

\* arguments that are neither a str nor a list of str
InvalidInputs ==
    {NoneV, IntV, Tuple(<<>>), Tuple(<<Str(<<"a">>)>>),
     List(<<IntV>>), List(<<NoneV>>), List(<<Str(<<"a">>), IntV>>),
     List(<<Tuple(<<Str(<<"a">>)>>)>>),
     List(<<List(<<>>)>>), List(<<List(<<Str(<<"a">>), Str(<<" ">>)>>)>>),
     List(<<Str(<<"a">>), List(<<>>)>>)}

\* the transforms whose process_list works element by element
PerElement ==
    {"Strip", "RemoveMultipleSpaces", "RemoveWhiteSpace", "RemoveWhiteSpaceBySpace",
     "RemovePunctuation", "ToLowerCase", "ToUpperCase", "RemoveKaldiNonWords"}

\* the transforms that override process_list with a collection-level meaning
CollectionAware ==
    {"ReduceToListOfListOfWords", "ReduceToListOfListOfChars",
     "ReduceToSingleSentence", "RemoveEmptyStrings"}

Reductions == {"ReduceToListOfListOfWords", "ReduceToListOfListOfChars"}

TrimCollapse == <<"Strip", "RemoveMultipleSpaces">>
CollapseTrim == <<"RemoveMultipleSpaces", "Strip">>

\* the pipelines called: each transform alone, trim + collapse once and twice,
\* and a reduction followed by another transform
Pipelines ==
    {<<tr>> : tr \in PerElement \cup CollectionAware}
    \cup {TrimCollapse, TrimCollapse \o TrimCollapse,
          CollapseTrim, CollapseTrim \o CollapseTrim}
    \cup {<<r, tr>> : r \in Reductions, tr \in {"Strip", "ReduceToListOfListOfChars"}}

\* the arguments a pipeline is called with
Inputs ==
    StrInputs(Alphabet, MaxChars) \cup ListInputs(Alphabet, MaxSent, MaxChars)
    \cup InvalidInputs

InitT ==
    /\ input \in Inputs
    /\ transforms \in Pipelines
    /\ text = input
    /\ pos = 1
    /\ pcT = "call"
    /\ excT = "none"
    /\ truth = NoneV /\ hypothesis = NoneV
    /\ tt = <<>> /\ hh = <<>>
    /\ idx = 0
    /\ H = 0 /\ S = 0 /\ D = 0 /\ I = 0
    /\ rate = <<>>
    /\ err = "none"
    /\ pc = "idle"

\* one iteration of the loop of Compose.__call__: text = tr(text)
ComposeStep ==
    /\ pcT = "call"
    /\ pos <= Len(transforms)
    /\ LET r == Call(transforms[pos], text)
       IN  IF r.exc # "none"
           THEN /\ pcT' = "raised"
                /\ excT' = r.exc
                /\ UNCHANGED <<text, pos>>
           ELSE /\ text' = r.val
                /\ pos' = pos + 1
                /\ UNCHANGED <<pcT, excT>>
    /\ UNCHANGED <<transforms, input>>
    /\ UNCHANGED cvars

\* the end of Compose.__call__: return text
ComposeReturn ==
    /\ pcT = "call"
    /\ pos > Len(transforms)
    /\ pcT' = "returned"
    /\ UNCHANGED <<transforms, input, text, pos, excT>>
    /\ UNCHANGED cvars

NextT == ComposeStep \/ ComposeReturn

SpecT == InitT /\ [][NextT]_vars

----------------------------------------------------------------------------
(* The alignment and metrics engine: cer(truth, hypothesis) *)

\* the default pipeline of cer(): trim, collapse multiple spaces, reduce to
\* lists of characters
DefaultCerTransform == <<"Strip", "RemoveMultipleSpaces", "ReduceToListOfListOfChars">>

Min2(a, b) == IF a <= b THEN a ELSE b

\* row i of the cost table, columns 0..Len(hyp) held at indices 1..Len(hyp)+1:
\* cost(i,0) = i; cost(i,j) = cost(i-1,j-1) if the tokens are equal, else
\* 1 + min(cost(i-1,j), cost(i,j-1), cost(i-1,j-1))
RECURSIVE FillRow(_, _, _, _, _)
FillRow(prev, cur, tok, hyp, i) ==
    IF Len(cur) = Len(hyp) + 1 THEN cur
    ELSE LET j == Len(cur)
             c == IF j = 0 THEN i
                  ELSE IF tok = hyp[j] THEN prev[j]
                  ELSE 1 + Min2(prev[j + 1], Min2(cur[j], prev[j]))
         IN  FillRow(prev, Append(cur, c), tok, hyp, i)

\* the cost table, rows 0..Len(ref) held at indices 1..Len(ref)+1; cost(0,j) = j
RECURSIVE CostRows(_, _, _)
CostRows(rows, ref, hyp) ==
    IF Len(rows) = Len(ref) + 1 THEN rows
    ELSE LET i == Len(rows)
         IN  CostRows(Append(rows, FillRow(rows[i], <<>>, ref[i], hyp, i)), ref, hyp)

CostTable(ref, hyp) == CostRows(<<[j \in 1..(Len(hyp) + 1) |-> j - 1]>>, ref, hyp)

\* the edit script read back from (i,j) to (0,0), one tag per token, preferring
\* substitution, then deletion, then insertion
RECURSIVE Backtrack(_, _, _, _, _)
Backtrack(cost, ref, hyp, i, j) ==
    IF i = 0 /\ j = 0 THEN <<>>
    ELSE IF i = 0 THEN Append(Backtrack(cost, ref, hyp, i, j - 1), "insert")
    ELSE IF j = 0 THEN Append(Backtrack(cost, ref, hyp, i - 1, j), "delete")
    ELSE IF ref[i] = hyp[j]
    THEN Append(Backtrack(cost, ref, hyp, i - 1, j - 1), "equal")
    ELSE IF cost[i + 1][j + 1] = cost[i][j] + 1
    THEN Append(Backtrack(cost, ref, hyp, i - 1, j - 1), "substitute")
    ELSE IF cost[i + 1][j + 1] = cost[i][j + 1] + 1
    THEN Append(Backtrack(cost, ref, hyp, i - 1, j), "delete")
    ELSE Append(Backtrack(cost, ref, hyp, i, j - 1), "insert")

EditScript(ref, hyp) == Backtrack(CostTable(ref, hyp), ref, hyp, Len(ref), Len(hyp))

CountTag(script, tag) == Len(SelectSeq(script, LAMBDA op : op = tag))

\* the operation counts of one sentence pair: a walk over its edit script
OperationCounts(ref, hyp) ==
    LET script == EditScript(ref, hyp)
    IN  [hits |-> CountTag(script, "equal"),
         substitutions |-> CountTag(script, "substitute"),
         deletions |-> CountTag(script, "delete"),
         insertions |-> CountTag(script, "insert")]

RECURSIVE Gcd(_, _)
Gcd(a, b) == IF b = 0 THEN a ELSE Gcd(b, a % b)

\* the rate n / d as a fraction in lowest terms
Rate(n, d) == <<n \div Gcd(n, d), d \div Gcd(n, d)>>

RECURSIVE TotalTokens(_)
TotalTokens(corpus) ==
    IF corpus = <<>> THEN 0 ELSE Len(Head(corpus)) + TotalTokens(Tail(corpus))

\* a normalized corpus as a sequence of token sequences
Corpus(x) == [i \in 1..Len(x.v) |-> x.v[i].v]

\* the validation made before any alignment: "none" when the corpora pass
Validate(ref, hyp) ==
    IF Len(ref) # Len(hyp) THEN "SentenceCountMismatch"
    ELSE IF TotalTokens(ref) = 0 THEN "EmptyReference"
    ELSE "none"

\* the inputs of the tests of test_cer.py
KnownCases ==
    {
     <<Str(<<"X">>),
       Str(<<"X">>)>>,
     <<Str(<<"X">>),
       Str(<<"X", " ", "X", " ", "Y", " ", "Y">>)>>,
     <<Str(<<"X", " ", "Y", " ", "X">>),
       Str(<<"X", " ", "Z">>)>>,
     <<Str(<<"X">>),
       Str(<<"Y">>)>>,
     <<Str(<<"X">>),
       Str(<<"Y", " ", "Z">>)>>,
     <<List(<<Str(<<"i">>), Str(<<"a", "m", " ", "i", " ", "g", "o", "o", "d">>)>>),
       List(<<Str(<<"i", " ", "a", "m">>), Str(<<"i", " ", "g", "o", "o", "d">>)>>)>>,
     <<List(<<Str(<<"a", "m", " ", "i", " ", "g", "o", "o", "d">>), Str(<<"i">>)>>),
       List(<<Str(<<"i", " ", "g", "o", "o", "d">>), Str(<<"i", " ", "a", "m">>)>>)>>,
     <<List(<<Str(<<"i">>), Str(<<"a", "m", " ", "i", " ", "g", "o", "o", "d">>)>>),
       List(<<Str(<<"i", " ", "a", "m">>), Str(<<"y", " ", "g", "o", "o", "d">>)>>)>>,
     <<List(<<Str(<<"h", "e", "l", "l", "o">>), Str(<<"t", "h", "i", "s">>), Str(<<"s", "e", "n", "t", "e", "n", "c", "e">>), Str(<<"i", "s", " ", "f", "r", "a", "c", "t", "u", "r", "e", "d">>)>>),
       List(<<Str(<<"t", "h", "i", "s", " ", "s", "e", "n", "t", "e", "n", "c", "e">>)>>)>>,
     <<Str(<<>>),
       Str(<<"t", "e", "s", "t">>)>>
    }

CerInputs ==
    StrInputs(CerAlphabet, CerMaxChars) \cup ListInputs(CerAlphabet, CerMaxSent, CerMaxChars)

Init ==
    /\ \/ truth \in CerInputs /\ hypothesis \in CerInputs
       \/ \E c \in KnownCases : truth = c[1] /\ hypothesis = c[2]
    /\ tt = <<>> /\ hh = <<>>
    /\ idx = 0
    /\ H = 0 /\ S = 0 /\ D = 0 /\ I = 0
    /\ rate = <<>>
    /\ err = "none"
    /\ pc = "start"
    /\ transforms = <<>> /\ input = NoneV /\ text = NoneV
    /\ pos = 0 /\ pcT = "idle" /\ excT = "none"

\* normalize both inputs, then validate the corpora
Preprocess ==
    /\ pc = "start"
    /\ LET ref == Corpus(ComposeCall(DefaultCerTransform, truth).val)
           hyp == Corpus(ComposeCall(DefaultCerTransform, hypothesis).val)
       IN  /\ tt' = ref
           /\ hh' = hyp
           /\ err' = Validate(ref, hyp)
           /\ pc' = IF Validate(ref, hyp) = "none" THEN "align" ELSE "error"
    /\ UNCHANGED <<truth, hypothesis, idx, H, S, D, I, rate>>
    /\ UNCHANGED tvars

\* align the next sentence pair and add its counts to the aggregate
AlignPair ==
    /\ pc = "align"
    /\ idx < Len(tt)
    /\ LET c == OperationCounts(tt[idx + 1], hh[idx + 1])
       IN  /\ H' = H + c.hits
           /\ S' = S + c.substitutions
           /\ D' = D + c.deletions
           /\ I' = I + c.insertions
    /\ idx' = idx + 1
    /\ UNCHANGED <<truth, hypothesis, tt, hh, rate, err, pc>>
    /\ UNCHANGED tvars

\* derive the rate from the aggregate counts and return
Finish ==
    /\ pc = "align"
    /\ idx = Len(tt)
    /\ rate' = Rate(S + D + I, H + S + D)
    /\ pc' = "done"
    /\ UNCHANGED <<truth, hypothesis, tt, hh, idx, H, S, D, I, err>>
    /\ UNCHANGED tvars

Next == Preprocess \/ AlignPair \/ Finish

Spec == Init /\ [][Next]_vars

----------------------------------------------------------------------------
(* cer() run to its end, as a function of its two arguments *)

ZeroCounts == [hits |-> 0, substitutions |-> 0, deletions |-> 0, insertions |-> 0]

\* the aggregate counts: the sum of the counts of the sentence pairs
RECURSIVE SumCounts(_, _)
SumCounts(ref, hyp) ==
    IF ref = <<>> THEN ZeroCounts
    ELSE LET c == OperationCounts(Head(ref), Head(hyp))
             r == SumCounts(Tail(ref), Tail(hyp))
         IN  [hits |-> c.hits + r.hits,
              substitutions |-> c.substitutions + r.substitutions,
              deletions |-> c.deletions + r.deletions,
              insertions |-> c.insertions + r.insertions]

ComputeMeasures(t, h) ==
    LET ref == Corpus(ComposeCall(DefaultCerTransform, t).val)
        hyp == Corpus(ComposeCall(DefaultCerTransform, h).val)
    IN  IF Validate(ref, hyp) # "none"
        THEN [err |-> Validate(ref, hyp), counts |-> ZeroCounts, rate |-> <<>>]
        ELSE LET c == SumCounts(ref, hyp)
             IN  [err |-> "none", counts |-> c,
                  rate |-> Rate(c.substitutions + c.deletions + c.insertions,
                                c.hits + c.substitutions + c.deletions)]

\* what the call in progress has produced
Outcome ==
    [err |-> err,
     counts |-> [hits |-> H, substitutions |-> S, deletions |-> D, insertions |-> I],
     rate |-> rate]

Ended == pc \in {"done", "error"}

----------------------------------------------------------------------------
(* Properties of cer(), checked under Spec *)

\* a str, or the list that holds one str
IsSingle(x) == IsStr(x) \/ (IsListOfStr(x) /\ Len(x.v) = 1)
AsStr(x) == IF IsStr(x) THEN x ELSE x.v[1]
AsList(x) == List(<<AsStr(x)>>)

\* C1: for a truth t and a hypothesis h, each given as a string or as the list
\* holding that string, cer ends the same way (same error, counts and rate) for all
\* four shapes, and both shapes normalize to the same tokenized corpus.
C1_InputShapesAgree ==
    (Ended /\ IsSingle(truth) /\ IsSingle(hypothesis)) =>
        /\ \A t \in {AsStr(truth), AsList(truth)} :
             \A h \in {AsStr(hypothesis), AsList(hypothesis)} :
               ComputeMeasures(t, h) = Outcome
        /\ tt = Corpus(ComposeCall(DefaultCerTransform, AsStr(truth)).val)
        /\ tt = Corpus(ComposeCall(DefaultCerTransform, AsList(truth)).val)
        /\ hh = Corpus(ComposeCall(DefaultCerTransform, AsStr(hypothesis)).val)
        /\ hh = Corpus(ComposeCall(DefaultCerTransform, AsList(hypothesis)).val)

C1_Witness ==
    /\ pc = "done"
    /\ truth.k = "list" /\ Len(truth.v) = 1
    /\ hypothesis.k = "str"
    /\ truth.v[1].v # StrStrip(truth.v[1].v)
    /\ H > 0 /\ S + D + I > 0

\* C2: when the normalized corpora differ in sentence count the call fails with
\* SentenceCountMismatch, no sentence pair has been aligned and no rate or count
\* is returned; two lists holding different numbers of sentences are such corpora.
C2_MismatchFailsBeforeAlignment ==
    /\ (pc # "start" /\ Len(tt) # Len(hh)) =>
          /\ pc = "error" /\ err = "SentenceCountMismatch"
          /\ idx = 0 /\ rate = <<>>
          /\ H = 0 /\ S = 0 /\ D = 0 /\ I = 0
    /\ (pc # "start" /\ truth.k = "list" /\ hypothesis.k = "list"
        /\ Len(truth.v) >= 1 /\ Len(hypothesis.v) >= 1
        /\ Len(truth.v) # Len(hypothesis.v)) =>
          /\ Len(tt) # Len(hh)
          /\ err = "SentenceCountMismatch"

C2_Witness ==
    /\ pc = "error" /\ err = "SentenceCountMismatch"
    /\ truth.k = "list" /\ Len(truth.v) = 4 /\ Len(tt) = 4
    /\ hypothesis.k = "list" /\ Len(hypothesis.v) = 1 /\ Len(hh) = 1
    /\ TotalTokens(tt) > 0

\* every character of every sentence of x is whitespace (also: no sentence at all)
IsBlank(x) ==
    IF IsStr(x) THEN \A i \in 1..Len(x.v) : IsSpace(x.v[i])
    ELSE \A n \in 1..Len(x.v) : \A i \in 1..Len(x.v[n].v) : IsSpace(x.v[n].v[i])

IndexPermutations(n) == {p \in [1..n -> 1..n] : \A a, b \in 1..n : p[a] = p[b] => a = b}
Permute(x, p) == List([i \in 1..Len(x.v) |-> x.v[p[i]]])

\* C4: for parallel lists of truth and hypothesis sentences, the call on the two
\* lists rearranged by one permutation ends with the same hits, substitutions,
\* deletions and insertions, and the same rate.
C4_PermutationInvariance ==
    (pc = "done" /\ truth.k = "list" /\ hypothesis.k = "list"
     /\ Len(truth.v) = Len(hypothesis.v)) =>
        \A p \in IndexPermutations(Len(truth.v)) :
            ComputeMeasures(Permute(truth, p), Permute(hypothesis, p)) = Outcome

C4_Witness ==
    /\ pc = "done"
    /\ truth.k = "list" /\ hypothesis.k = "list"
    /\ Len(truth.v) = 2 /\ Len(hypothesis.v) = 2
    /\ OperationCounts(tt[1], hh[1]) # OperationCounts(tt[2], hh[2])
    /\ D > 0 /\ I > 0 /\ H > 0

Min3(a, b, c) == Min2(a, Min2(b, c))

\* the edit distance: the least number of substitutions, deletions and insertions
\* that turn a into b
RECURSIVE Levenshtein(_, _)
Levenshtein(a, b) ==
    IF a = <<>> THEN Len(b)
    ELSE IF b = <<>> THEN Len(a)
    ELSE Min3(Levenshtein(Tail(a), b) + 1,
              Levenshtein(a, Tail(b)) + 1,
              Levenshtein(Tail(a), Tail(b)) + (IF Head(a) = Head(b) THEN 0 ELSE 1))

RECURSIVE SumLevenshtein(_, _)
SumLevenshtein(ref, hyp) ==
    IF ref = <<>> THEN 0
    ELSE Levenshtein(Head(ref), Head(hyp)) + SumLevenshtein(Tail(ref), Tail(hyp))

\* the number of characters of the sentences of x once trimmed and collapsed
RECURSIVE NormalizedChars(_)
NormalizedChars(sentences) ==
    IF sentences = <<>> THEN 0
    ELSE Len(SubMultipleSpaces(StrStrip(Head(sentences).v)))
         + NormalizedChars(Tail(sentences))

SentencesOfInput(x) == IF IsStr(x) THEN <<x>> ELSE x.v

\* C5: a call that returns reports the counts of the sentence pairs' alignments
\* summed: H+S+D is the number of reference tokens, H+S+I the number of hypothesis
\* tokens, S+D+I the sum of the pairs' edit distances, and the rate is
\* (S+D+I)/(H+S+D); every character of a normalized sentence, a space included,
\* is one token.
C5_CountsAndRate ==
    pc = "done" =>
        /\ Outcome.counts = SumCounts(tt, hh)
        /\ H + S + D = TotalTokens(tt)
        /\ H + S + I = TotalTokens(hh)
        /\ S + D + I = SumLevenshtein(tt, hh)
        /\ H + S + D > 0
        /\ rate = Rate(S + D + I, H + S + D)
        /\ rate[1] * (H + S + D) = rate[2] * (S + D + I)
        /\ TotalTokens(tt) = NormalizedChars(SentencesOfInput(truth))
        /\ TotalTokens(hh) = NormalizedChars(SentencesOfInput(hypothesis))

C5_Witness ==
    /\ pc = "done"
    /\ truth = Str(<<"X">>)
    /\ hypothesis = Str(<<"X", " ", "X", " ", "Y", " ", "Y">>)
    /\ H = 1 /\ S = 0 /\ D = 0 /\ I = 6
    /\ rate = <<6, 1>>

----------------------------------------------------------------------------
(* Properties of the transforms, checked under SpecT *)

Finished == pcT \in {"returned", "raised"}
IsValidInput(x) == IsStr(x) \/ IsListOfStr(x)

\* C6 as claimed: a transform called with an input that is neither a string nor a
\* list of strings raises ValueError and returns nothing.
C6_InvalidInputRaisesValueError ==
    (Finished /\ Len(transforms) = 1 /\ ~IsValidInput(input)) =>
        (pcT = "raised" /\ excT = "ValueError")

\* C7: a transform that is not collection-aware, called with a list of strings,
\* returns a list of the same length whose i-th element is the transform applied
\* to the i-th string.
C7_PerElement ==
    (Finished /\ Len(transforms) = 1 /\ transforms[1] \in PerElement
     /\ IsListOfStr(input)) =>
        /\ pcT = "returned"
        /\ text.k = "list"
        /\ Len(text.v) = Len(input.v)
        /\ \A i \in 1..Len(input.v) :
             /\ Call(transforms[1], input.v[i]).exc = "none"
             /\ text.v[i] = Call(transforms[1], input.v[i]).val

C7_Witness ==
    /\ pcT = "returned"
    /\ transforms = <<"Strip">>
    /\ IsListOfStr(input) /\ Len(input.v) = 2
    /\ text.v[1] # input.v[1]
    /\ text.v[2] = Str(<<>>)

WordLists(sentences) ==
    SelectSeq([i \in 1..Len(sentences) |-> WordsProcessString(sentences[i]).val.v[1]],
              LAMBDA l : l.v # <<>>)

\* C9 as claimed: ReduceToListOfListOfWords called with a list of sentences leaves
\* out the sentences that yield no word (a list left without any entry becomes
\* the one empty word list).
C9_EmptySentencesRemoved ==
    (Finished /\ transforms = <<"ReduceToListOfListOfWords">>
     /\ IsListOfStr(input) /\ Len(input.v) >= 1) =>
        /\ pcT = "returned"
        /\ text.v = (IF WordLists(input.v) = <<>> THEN <<List(<<>>)>>
                     ELSE WordLists(input.v))

====
